---- MODULE Spec2Model ----
(***************************************************************************)
(* The notify-me storefront widget (src/assets/notify-me.js): one custom   *)
(* element, NotifyMeComponent, that                                        *)
(*   - watches variant events and shows or hides itself,                   *)
(*   - opens an email modal on a click of its trigger button,              *)
(*   - posts the subscription and reports the outcome in the modal.        *)
(* The document is modelled as far as the component touches it: the        *)
(* listeners it registers, the modal elements it appends to <body>, the    *)
(* timers and animation-frame callbacks it schedules and the requests it   *)
(* has in flight.  Console output and the 100ms focus timer change none of *)
(* this state and are left out.                                            *)
(***************************************************************************)
EXTENDS Integers, Sequences, FiniteSets, TLC

VARIABLES
  attached,        \* the component is connected to the document
  hasButton,       \* the component contains #notify-me-button
  listeners,       \* variant listeners: set of [scope, type, h]
  bound,           \* this.boundVariantUpdateHandler (0: undefined)
  nHandlers,       \* handler closures created so far by setupVariantUpdateListener
  clickListeners,  \* click listeners on the trigger button
  display,         \* [self, button]: the two style.display values
  body,            \* modal elements in <body>, in document order
  elems,           \* every modal element ever inserted (attached or detached)
  closures,        \* one per showEmailModal call: the element it captured
  keydown,         \* handleKeydown listeners on the document, in order
  rafs,            \* pending requestAnimationFrame callbacks, in order
  timers,          \* pending setTimeout callbacks, in scheduling order
  requests,        \* fetch calls in flight
  fetchCount,      \* POSTs issued so far
  nSubmits,        \* submit events so far
  nEvents,         \* user events on the modal so far
  last,            \* the watcher's last step: the callback or variant event it handled
  resolution       \* the page getVariantId runs on and, once called, what it returned

watcherVars == <<attached, hasButton, listeners, bound, nHandlers, clickListeners, display>>
modalVars == <<body, elems, closures, keydown, rafs, timers, requests, fetchCount, nSubmits,
               nEvents>>
vars == <<watcherVars, modalVars, last, resolution>>

-----------------------------------------------------------------------------
(* Bounds of the model *)

\* user events on the trigger button, the modals and the keyboard in one behaviour
MaxEvents == 4
\* connectedCallback calls in one behaviour
MaxAttach == 3

-----------------------------------------------------------------------------
(* Strings, computed as String.prototype does *)

IsSpace(c) == c = " "

RECURSIVE TrimStart(_)
TrimStart(s) ==
  IF Len(s) > 0 /\ IsSpace(SubSeq(s, 1, 1)) THEN TrimStart(SubSeq(s, 2, Len(s))) ELSE s

RECURSIVE TrimEnd(_)
TrimEnd(s) ==
  IF Len(s) > 0 /\ IsSpace(SubSeq(s, Len(s), Len(s)))
  THEN TrimEnd(SubSeq(s, 1, Len(s) - 1))
  ELSE s

\* String.prototype.trim
Trim(s) == TrimEnd(TrimStart(s))

\* String.prototype.includes
Includes(s, sub) ==
  \E i \in 1..(Len(s) - Len(sub) + 1) : SubSeq(s, i, i + Len(sub) - 1) = sub

\* An optional JavaScript value: <<>> is undefined/absent, <<v>> is v.
Truthy(opt) == opt # <<>> /\ opt[1] # ""

-----------------------------------------------------------------------------
(* 4.1 Availability watcher *)

Document == "document"
Sections == {"section-1", "section-2"}
Scopes == Sections \cup {Document}
VariantUpdate == "ThemeEvents.variantUpdate"
VariantSelected == "ThemeEvents.variantSelected"
EventTypes == {VariantUpdate, VariantSelected}

\* this.closest(".shopify-section") || document, where closest is <<>> for null
ScopeOf(closest) == IF closest # <<>> THEN closest[1] ELSE Document

\* What closest(".shopify-section") can return: null or a section
Closest == {<<>>} \cup {<<s>> : s \in Sections}

\* event.detail: absent, or a record whose resource is absent, null or a variant;
\* a variant's available is true, false or missing
NoDetail == [detail |-> FALSE, resource |-> "none", available |-> "none"]
Payloads ==
  {NoDetail}
  \cup {[detail |-> TRUE, resource |-> r, available |-> "none"] : r \in {"absent", "null"}}
  \cup {[detail |-> TRUE, resource |-> "variant", available |-> a] :
          a \in {"true", "false", "missing"}}

\* const variant = event.detail?.resource, as a truthy test with its available field
VariantOf(p) ==
  IF p.detail /\ p.resource = "variant" THEN <<p.available>> ELSE <<>>

Shown == [self |-> "block", button |-> "flex"]
Hidden == [self |-> "none", button |-> "none"]
Unset == [self |-> "", button |-> ""]

\* the branch on variant.available === false, with the strict comparison dropped
HandleVariantUpdateLoose(d, btn, p) ==
  LET variant == VariantOf(p) IN
  IF ~btn THEN d
  ELSE IF variant # <<>> /\ variant[1] # "true" THEN Shown
  ELSE Hidden

\* handleVariantUpdate: the display after the event
HandleVariantUpdate(d, btn, p) ==
  LET variant == VariantOf(p) IN
  IF ~btn THEN d
  ELSE IF variant # <<>> /\ variant[1] = "false" THEN Shown
  ELSE IF variant # <<>> /\ variant[1] = "true" THEN Hidden
  ELSE Hidden

\* setupVariantUpdateListener: a fresh handler registered for both types on the scope
SetupVariantUpdateListener(ls, h, closest) ==
  ls \cup {[scope |-> ScopeOf(closest), type |-> t, h |-> h] : t \in EventTypes}

\* the two removeEventListener calls of disconnectedCallback
RemoveVariantListeners(ls, h, closest) ==
  IF h # 0
  THEN ls \ {[scope |-> ScopeOf(closest), type |-> t, h |-> h] : t \in EventTypes}
  ELSE ls

\* setupNotifyButton: one more click listener when the button exists
SetupNotifyButton(n, btn) == IF btn THEN n + 1 ELSE n

NoEvent == [op |-> "none"]

\* connectedCallback
ConnectedCallback(closest) ==
  /\ ~attached
  /\ nHandlers < MaxAttach
  /\ attached' = TRUE
  /\ clickListeners' = SetupNotifyButton(clickListeners, hasButton)
  /\ nHandlers' = nHandlers + 1
  /\ bound' = nHandlers + 1
  /\ listeners' = SetupVariantUpdateListener(listeners, nHandlers + 1, closest)
  /\ last' = [op |-> "connected", scope |-> ScopeOf(closest)]
  /\ UNCHANGED <<hasButton, display, modalVars, resolution>>

\* disconnectedCallback; closest is what this.closest finds once the element is detached
DisconnectedCallback(closest) ==
  /\ attached
  /\ attached' = FALSE
  /\ listeners' = RemoveVariantListeners(listeners, bound, closest)
  /\ last' = [op |-> "disconnected", scope |-> ScopeOf(closest)]
  /\ UNCHANGED <<hasButton, bound, nHandlers, clickListeners, display, modalVars, resolution>>

\* The listeners an event of type t dispatched inside scope s reaches: those on s
\* and, by bubbling, those on the document
Reached(s, t) == {l \in listeners : l.type = t /\ l.scope \in {s, Document}}

\* A variant event is dispatched and reaches at least one handler of the component
VariantEvent(s, t, p) ==
  /\ Reached(s, t) # {}
  /\ display' = HandleVariantUpdate(display, hasButton, p)
  /\ last' = [op |-> "variant", type |-> t, payload |-> p, attached |-> attached]
  /\ UNCHANGED <<attached, hasButton, listeners, bound, nHandlers, clickListeners, modalVars, resolution>>

-----------------------------------------------------------------------------
(* 4.3 Variant resolution *)

\* The parts of the page getVariantId reads.  productForm and section: whether
\* closest finds one, and the values of the id/variantId inputs inside it in
\* document order.  picker: whether a variant-picker exists and its checked
\* input's data-variant-id (<<>>: no checked input, << <<>> >>: no attribute).
\* url: the variant query parameter (<<>>: not in the URL).
NoContainer == [present |-> FALSE, inputs |-> <<>>]
Container(vals) == [present |-> TRUE, inputs |-> vals]
NoPicker == [present |-> FALSE, checked |-> <<>>]
Picker(c) == [present |-> TRUE, checked |-> c]

\* getVariantId with the URL parameter read before the variant picker
GetVariantIdUrlFirst(page) ==
  LET pf == page.productForm
      sec == page.section
      nonEmpty == {i \in 1..Len(sec.inputs) : sec.inputs[i] # ""}
      firstNonEmpty == CHOOSE i \in nonEmpty : \A j \in nonEmpty : i <= j
  IN
  IF pf.present /\ Len(pf.inputs) > 0 /\ pf.inputs[1] # "" THEN <<pf.inputs[1]>>
  ELSE IF sec.present /\ nonEmpty # {} THEN <<sec.inputs[firstNonEmpty]>>
  ELSE IF Truthy(page.url) THEN page.url
  ELSE IF page.picker.present /\ page.picker.checked # <<>>
          /\ Truthy(page.picker.checked[1])
       THEN page.picker.checked[1]
  ELSE <<>>

\* getVariantId: <<>> for null, else <<id>>
GetVariantId(page) ==
  LET pf == page.productForm
      sec == page.section
      nonEmpty == {i \in 1..Len(sec.inputs) : sec.inputs[i] # ""}
      firstNonEmpty == CHOOSE i \in nonEmpty : \A j \in nonEmpty : i <= j
  IN
  IF pf.present /\ Len(pf.inputs) > 0 /\ pf.inputs[1] # "" THEN <<pf.inputs[1]>>
  ELSE IF sec.present /\ nonEmpty # {} THEN <<sec.inputs[firstNonEmpty]>>
  ELSE IF page.picker.present /\ page.picker.checked # <<>>
          /\ Truthy(page.picker.checked[1])
       THEN page.picker.checked[1]
  ELSE IF Truthy(page.url) THEN page.url
  ELSE <<>>

\* The pages a submission of the modal runs on
SubmitPages ==
  { [productForm |-> NoContainer, section |-> NoContainer, picker |-> NoPicker, url |-> <<>>],
    [productForm |-> Container(<<"41">>), section |-> Container(<<"41">>),
     picker |-> Picker(<< <<"43">> >>), url |-> <<"44">>] }

\* Every page shape getVariantId distinguishes: each container absent, without
\* input, with an empty input, with a value, with an empty input before a value;
\* the picker absent, without checked input, checked without or with an empty
\* data-variant-id, checked with an id; the URL parameter absent, empty or set
Pages ==
  [productForm : {NoContainer} \cup {Container(i) : i \in {<<>>, <<"">>, <<"41">>, <<"", "41">>}},
   section : {NoContainer} \cup {Container(i) : i \in {<<>>, <<"">>, <<"42">>, <<"", "42">>}},
   picker : {NoPicker} \cup {Picker(c) : c \in {<<>>, << <<>> >>, << <<"">> >>, << <<"43">> >>}},
   url : {<<>>, <<"">>, <<"44">>}]

NotResolved == [called |-> FALSE]

\* A call of getVariantId on the page
ResolveVariant ==
  /\ ~resolution.called
  /\ resolution' = [called |-> TRUE, page |-> resolution.page,
                    variantId |-> GetVariantId(resolution.page)]
  /\ UNCHANGED <<watcherVars, modalVars, last>>

-----------------------------------------------------------------------------
(* 4.4 The network call *)

NetworkErrorText == "Network error. Please check your connection and try again."
\* SyntaxError text of response.json() on a body that is not JSON
JsonSyntaxText == "Unexpected end of JSON input"

\* What fetch can settle with.
\*   reject: a transport failure, a TypeError whose text the browser chooses
\*   ok: a 2xx response whose body is JSON or not
\*   http: a non-2xx response; body "none" (empty), "text" (not JSON), "null"
\*         (the JSON value null) or "json" with optional message and error fields
FetchRejections ==
  {[kind |-> "reject", name |-> "TypeError", message |-> m] :
     m \in {"Failed to fetch", "NetworkError when attempting to fetch resource.",
            "Load failed"}}
OkResponses == {[kind |-> "ok", status |-> 200, body |-> b] : b \in {"json", "none"}}
HttpErrors ==
  {[kind |-> "http", status |-> st, body |-> b, message |-> <<>>, error |-> <<>>] :
     st \in {404, 500}, b \in {"none", "text", "null"}}
  \cup {[kind |-> "http", status |-> 500, body |-> "json", message |-> m, error |-> e] :
          m \in {<<>>, <<"">>, <<"Email already subscribed">>},
          e \in {<<>>, <<"">>, <<"invalid variant">>}}
Responses == FetchRejections \cup OkResponses \cup HttpErrors

\* The two outcomes the behaviours with several opens are explored with: the
\* call resolves, the call throws
ModalResponses ==
  {r \in OkResponses : r.body = "json"}
  \cup {r \in HttpErrors : r.status = 500 /\ r.body = "none"}

Resolved == [ok |-> TRUE, name |-> "", message |-> ""]
Thrown(n, m) == [ok |-> FALSE, name |-> n, message |-> m]

\* the catch of submitNotification: what it throws for the error it caught
Rethrow(err) ==
  IF err.name = "TypeError" /\ Includes(err.message, "fetch")
  THEN Thrown("Error", NetworkErrorText)
  ELSE err

\* the message for a non-2xx response with the body's error field read before
\* its message field
HttpErrorMessageErrorFirst(r) ==
  LET generic == "HTTP " \o ToString(r.status) IN
  IF r.body = "json"
  THEN IF Truthy(r.error) THEN r.error[1]
       ELSE IF Truthy(r.message) THEN r.message[1]
       ELSE generic
  ELSE generic

\* the message thrown for a non-2xx response
HttpErrorMessage(r) ==
  LET generic == "HTTP " \o ToString(r.status) IN
  IF r.body = "json"
  THEN IF Truthy(r.message) THEN r.message[1]
       ELSE IF Truthy(r.error) THEN r.error[1]
       ELSE generic
  ELSE generic

\* submitNotification: how the awaited call settles for the caller
SubmitNotification(r) ==
  IF r.kind = "reject" THEN Rethrow(Thrown(r.name, r.message))
  ELSE IF r.kind = "http" THEN Rethrow(Thrown("Error", HttpErrorMessage(r)))
  ELSE IF r.body = "json" THEN Resolved
  ELSE Thrown("SyntaxError", JsonSyntaxText)

-----------------------------------------------------------------------------
(* 4.2 The modal *)

ButtonLabel == "Notify Me"
BusyLabel == "Submitting..."
ValidationText == "Please enter a valid email address."
NoVariantText == "Error: Could not determine product variant."
ThankYouText == "Thank you! We'll notify you when this product is back in stock."
FallbackErrorText == "Sorry, there was an error. Please try again."

\* setTimeout delays, in milliseconds
CloseDelay == 300
AutoCloseDelay == 2500
Delay(kind) == IF kind = "remove" THEN CloseDelay ELSE AutoCloseDelay

\* The subtree the modalHTML template creates
ModalHTML ==
  [visible |-> FALSE, value |-> "", disabled |-> FALSE, label |-> ButtonLabel,
   msg |-> "", msgClass |-> "", msgDisplay |-> "none"]

\* showMessage
ShowMessage(el, message, type) ==
  [el EXCEPT !.msg = message, !.msgClass = type, !.msgDisplay = "block"]

\* The document state the modal code works on
Dom == [body |-> body, elems |-> elems, closures |-> closures, keydown |-> keydown,
        rafs |-> rafs, timers |-> timers]

SetDom(d) ==
  /\ body' = d.body
  /\ elems' = d.elems
  /\ closures' = d.closures
  /\ keydown' = d.keydown
  /\ rafs' = d.rafs
  /\ timers' = d.timers

Without(seq, x) == SelectSeq(seq, LAMBDA y : y # x)

\* document.getElementById: the first element with the id in document order
GetElementById(d) == d.body[1]

\* showEmailModal: insert a new subtree, look the modal up by id, wire the handlers
ShowEmailModal(d) ==
  LET id == Len(d.elems) + 1
      k == Len(d.closures) + 1
      inserted == [d EXCEPT !.elems = Append(@, ModalHTML), !.body = Append(@, id)]
  IN [inserted EXCEPT !.closures = Append(@, [modal |-> GetElementById(inserted)]),
                      !.rafs = Append(@, k),
                      !.keydown = Append(@, k)]

\* closeModal with the visibility class toggled instead of removed
CloseModalToggle(d, k) ==
  LET m == d.closures[k].modal IN
  [d EXCEPT !.keydown = Without(@, k),
            !.elems[m].visible = ~@,
            !.timers = Append(@, [kind |-> "remove", k |-> k])]

\* closeModal of closure k
CloseModal(d, k) ==
  LET m == d.closures[k].modal IN
  [d EXCEPT !.keydown = Without(@, k),
            !.elems[m].visible = FALSE,
            !.timers = Append(@, [kind |-> "remove", k |-> k])]

\* closeModal of each closure of ks in turn
RECURSIVE CloseAll(_, _)
CloseAll(d, ks) == IF ks = <<>> THEN d ELSE CloseAll(CloseModal(d, Head(ks)), Tail(ks))

\* showEmailModal once per click listener of the trigger button
RECURSIVE ShowTimes(_, _)
ShowTimes(d, n) == IF n = 0 THEN d ELSE ShowTimes(ShowEmailModal(d), n - 1)

\* The closures whose handlers are on element e's buttons and form, in order
BoundTo(d, e) == SelectSeq([k \in 1..Len(d.closures) |-> k], LAMBDA k : d.closures[k].modal = e)

InBody(e) == \E i \in 1..Len(body) : body[i] = e

\* A click on the trigger button
HandleNotifyMeClick ==
  /\ clickListeners >= 1
  /\ nEvents < MaxEvents
  /\ nEvents' = nEvents + 1
  /\ SetDom(ShowTimes(Dom, clickListeners))
  /\ UNCHANGED <<watcherVars, last, resolution, requests, fetchCount, nSubmits>>

\* The next animation frame runs every pending callback
AnimationFrame ==
  /\ rafs # <<>>
  /\ elems' = [e \in 1..Len(elems) |->
                 IF \E i \in 1..Len(rafs) : closures[rafs[i]].modal = e
                 THEN [elems[e] EXCEPT !.visible = TRUE]
                 ELSE elems[e]]
  /\ rafs' = <<>>
  /\ UNCHANGED <<watcherVars, last, resolution, body, closures, keydown, timers, requests, fetchCount, nSubmits,
               nEvents>>

\* A click on the close button, the cancel button or the backdrop of element e
CloseClick(e, trigger) ==
  /\ InBody(e)
  /\ BoundTo(Dom, e) # <<>>
  /\ nEvents < MaxEvents
  /\ nEvents' = nEvents + 1
  /\ SetDom(CloseAll(Dom, BoundTo(Dom, e)))
  /\ UNCHANGED <<watcherVars, last, resolution, requests, fetchCount, nSubmits>>

\* A keydown on the document: every registered handleKeydown runs
Keydown(key) ==
  /\ keydown # <<>>
  /\ nEvents < MaxEvents
  /\ nEvents' = nEvents + 1
  /\ SetDom(IF key = "Escape" THEN CloseAll(Dom, keydown) ELSE Dom)
  /\ UNCHANGED <<watcherVars, last, resolution, requests, fetchCount, nSubmits>>

\* Timer i may fire when no timer scheduled before it has a delay as short
Due(i) == \A j \in 1..(i - 1) : Delay(timers[j].kind) > Delay(timers[i].kind)

DropAt(seq, i) == SubSeq(seq, 1, i - 1) \o SubSeq(seq, i + 1, Len(seq))

\* setTimeout(() => modal.remove(), 300) fires
RemoveTimer(i) ==
  /\ i \in 1..Len(timers)
  /\ timers[i].kind = "remove"
  /\ Due(i)
  /\ body' = Without(body, closures[timers[i].k].modal)
  /\ timers' = DropAt(timers, i)
  /\ UNCHANGED <<watcherVars, last, resolution, elems, closures, keydown, rafs, requests, fetchCount, nSubmits,
               nEvents>>

\* setTimeout(closeModal, 2500) fires
AutoCloseTimer(i) ==
  /\ i \in 1..Len(timers)
  /\ timers[i].kind = "autoclose"
  /\ Due(i)
  /\ SetDom(CloseModal([Dom EXCEPT !.timers = DropAt(@, i)], timers[i].k))
  /\ UNCHANGED <<watcherVars, last, resolution, requests, fetchCount, nSubmits, nEvents>>

\* The values the email input holds when its form is submitted
Emails == {"", "  ", "not-an-email", " a@b.c "}

\* the submit handler with the test for "@" left out of the validation
SubmitHandlerNoAtCheck(sub, k, page) ==
  LET m == closures[k].modal
      el == sub.elems[m]
      email == Trim(el.value)
      variantId == GetVariantId(page)
  IN
  IF email = ""
  THEN [sub EXCEPT !.elems[m] = ShowMessage(el, ValidationText, "error")]
  ELSE IF ~Truthy(variantId)
  THEN [sub EXCEPT !.elems[m] = ShowMessage(el, NoVariantText, "error")]
  ELSE [sub EXCEPT !.elems[m] = [el EXCEPT !.disabled = TRUE, !.label = BusyLabel],
                   !.requests = Append(@, [k |-> k, variantId |-> variantId[1],
                                           email |-> email, originalText |-> el.label]),
                   !.fetchCount = @ + 1]

\* the submit handler with the test of the resolved variant left out
SubmitHandlerNoVariantCheck(sub, k, page) ==
  LET m == closures[k].modal
      el == sub.elems[m]
      email == Trim(el.value)
      variantId == GetVariantId(page)
  IN
  IF email = "" \/ ~Includes(email, "@")
  THEN [sub EXCEPT !.elems[m] = ShowMessage(el, ValidationText, "error")]
  ELSE [sub EXCEPT !.elems[m] = [el EXCEPT !.disabled = TRUE, !.label = BusyLabel],
                   !.requests = Append(@, [k |-> k,
                                           variantId |-> IF variantId = <<>> THEN "null"
                                                         ELSE variantId[1],
                                           email |-> email, originalText |-> el.label]),
                   !.fetchCount = @ + 1]

\* The submit handler of closure k up to its await, on sub = [elems, requests, fetchCount]
SubmitHandler(sub, k, page) ==
  LET m == closures[k].modal
      el == sub.elems[m]
      email == Trim(el.value)
      variantId == GetVariantId(page)
  IN
  IF email = "" \/ ~Includes(email, "@")
  THEN [sub EXCEPT !.elems[m] = ShowMessage(el, ValidationText, "error")]
  ELSE IF ~Truthy(variantId)
  THEN [sub EXCEPT !.elems[m] = ShowMessage(el, NoVariantText, "error")]
  ELSE [sub EXCEPT !.elems[m] = [el EXCEPT !.disabled = TRUE, !.label = BusyLabel],
                   !.requests = Append(@, [k |-> k, variantId |-> variantId[1],
                                           email |-> email, originalText |-> el.label]),
                   !.fetchCount = @ + 1]

RECURSIVE SubmitAll(_, _, _)
SubmitAll(sub, ks, page) ==
  IF ks = <<>> THEN sub ELSE SubmitAll(SubmitHandler(sub, Head(ks), page), Tail(ks), page)

\* A submit event on the form of element e, whose email input holds v; possible
\* while the form's submit control is enabled
Submit(e, v, page) ==
  LET sub == SubmitAll([elems |-> [elems EXCEPT ![e].value = v], requests |-> requests,
                        fetchCount |-> fetchCount],
                       BoundTo(Dom, e), page)
  IN
  /\ InBody(e)
  /\ BoundTo(Dom, e) # <<>>
  /\ ~elems[e].disabled
  /\ nEvents < MaxEvents
  /\ nEvents' = nEvents + 1
  /\ nSubmits' = nSubmits + 1
  /\ elems' = sub.elems
  /\ requests' = sub.requests
  /\ fetchCount' = sub.fetchCount
  /\ UNCHANGED <<watcherVars, last, resolution, body, closures, keydown, rafs, timers>>

\* The submit handler after its await, skipping the updates once the modal has
\* left the document
AfterAwaitIgnoreIfRemoved(d, req, outcome) ==
  LET m == closures[req.k].modal
      el == d.elems[m]
      shown == IF outcome.ok
               THEN [ShowMessage(el, ThankYouText, "success") EXCEPT !.value = ""]
               ELSE ShowMessage(el, IF outcome.message # "" THEN outcome.message
                                    ELSE FallbackErrorText, "error")
  IN IF \A i \in 1..Len(d.body) : d.body[i] # m THEN d
     ELSE [d EXCEPT !.elems[m] = [shown EXCEPT !.disabled = FALSE, !.label = req.originalText],
                    !.timers = IF outcome.ok
                               THEN Append(@, [kind |-> "autoclose", k |-> req.k])
                               ELSE @]

\* The submit handler after its await: try, catch and finally
AfterAwait(d, req, outcome) ==
  LET m == closures[req.k].modal
      el == d.elems[m]
      shown == IF outcome.ok
               THEN [ShowMessage(el, ThankYouText, "success") EXCEPT !.value = ""]
               ELSE ShowMessage(el, IF outcome.message # "" THEN outcome.message
                                    ELSE FallbackErrorText, "error")
  IN [d EXCEPT !.elems[m] = [shown EXCEPT !.disabled = FALSE, !.label = req.originalText],
               !.timers = IF outcome.ok
                          THEN Append(@, [kind |-> "autoclose", k |-> req.k])
                          ELSE @]

\* The fetch of request i settles with r and the handler resumes
Respond(i, r) ==
  /\ i \in 1..Len(requests)
  /\ SetDom(AfterAwait(Dom, requests[i], SubmitNotification(r)))
  /\ requests' = DropAt(requests, i)
  /\ UNCHANGED <<watcherVars, last, resolution, fetchCount, nSubmits, nEvents>>

InitModalEmpty ==
  /\ body = <<>>
  /\ elems = <<>>
  /\ closures = <<>>
  /\ keydown = <<>>
  /\ rafs = <<>>
  /\ timers = <<>>
  /\ requests = <<>>
  /\ fetchCount = 0
  /\ nSubmits = 0
  /\ nEvents = 0

\* The element as the page's parser leaves it: upgraded and connected once
InitWatcher ==
  /\ hasButton \in BOOLEAN
  /\ attached = TRUE
  /\ nHandlers = 1
  /\ bound = 1
  /\ \E c \in Closest : listeners = SetupVariantUpdateListener({}, 1, c)
  /\ clickListeners = SetupNotifyButton(0, hasButton)
  /\ display \in {Unset, Shown, Hidden}
  /\ last = NoEvent
  /\ resolution = NotResolved
  /\ InitModalEmpty

NextWatcher ==
  \/ \E c \in Closest : ConnectedCallback(c)
  \/ \E c \in Closest : DisconnectedCallback(c)
  \/ \E s \in Scopes, t \in EventTypes, p \in Payloads : VariantEvent(s, t, p)

SpecWatcher == InitWatcher /\ [][NextWatcher]_vars

\* The page after load: the component connected once, its trigger button present
Init ==
  /\ InitWatcher
  /\ hasButton
  /\ display = Unset
  /\ listeners = SetupVariantUpdateListener({}, 1, <<>>)

Next ==
  \/ HandleNotifyMeClick
  \/ AnimationFrame
  \/ \E e \in 1..Len(elems), t \in {"close", "cancel", "backdrop"} : CloseClick(e, t)
  \/ \E key \in {"Escape", "Enter"} : Keydown(key)
  \/ \E i \in 1..Len(timers) : RemoveTimer(i)
  \/ \E i \in 1..Len(timers) : AutoCloseTimer(i)
  \/ \E e \in 1..Len(elems), v \in Emails, page \in SubmitPages : Submit(e, v, page)
  \/ \E i \in 1..Len(requests), r \in ModalResponses : Respond(i, r)

Spec == Init /\ [][Next]_vars

\* The behaviours with a single open of the modal, under every settlement of fetch
NextNetwork ==
  \/ closures = <<>> /\ HandleNotifyMeClick
  \/ AnimationFrame
  \/ \E e \in 1..Len(elems), t \in {"close", "cancel", "backdrop"} : CloseClick(e, t)
  \/ \E key \in {"Escape", "Enter"} : Keydown(key)
  \/ \E i \in 1..Len(timers) : RemoveTimer(i)
  \/ \E i \in 1..Len(timers) : AutoCloseTimer(i)
  \/ \E e \in 1..Len(elems), v \in Emails, page \in SubmitPages : Submit(e, v, page)
  \/ \E i \in 1..Len(requests), r \in Responses : Respond(i, r)

SpecNetwork == Init /\ [][NextNetwork]_vars

\* getVariantId alone, on every page shape
InitVariant ==
  /\ attached = TRUE
  /\ hasButton = TRUE
  /\ nHandlers = 1
  /\ bound = 1
  /\ listeners = SetupVariantUpdateListener({}, 1, <<>>)
  /\ clickListeners = SetupNotifyButton(0, TRUE)
  /\ display = Unset
  /\ last = NoEvent
  /\ InitModalEmpty
  /\ \E p \in Pages : resolution = [called |-> FALSE, page |-> p]

NextVariant == ResolveVariant

SpecVariant == InitVariant /\ [][NextVariant]_vars

-----------------------------------------------------------------------------
(* Properties *)

\* The element the closure of request or timer x works on
ModalOf(k) == closures[k].modal

\* A close of element e has run and its removal is pending
Closing(e) == \E i \in 1..Len(timers) : timers[i].kind = "remove" /\ ModalOf(timers[i].k) = e

\* Element e is opening (awaits the frame that shows it) or open (shown)
IsOpen(e) ==
  /\ InBody(e)
  /\ ~Closing(e)
  /\ elems[e].visible \/ \E i \in 1..Len(rafs) : ModalOf(rafs[i]) = e

InFlight(e) == \E i \in 1..Len(requests) : ModalOf(requests[i].k) = e

InvalidEmail(v) == Trim(v) = "" \/ ~Includes(Trim(v), "@")

\* C1: over any sequence of open clicks and close triggers, at most one
\* handleKeydown listener of the widget is registered on the document.
C1_AtMostOneKeydownListener == Len(keydown) <= 1

\* C2: the document never holds more than one element with id notify-me-modal.
C2_AtMostOneModalElement == Len(body) <= 1

\* C3: a detached component has no variant listener left on any scope, and an
\* attached component has exactly one listener per event type.
C3_ListenersFollowAttachment ==
  /\ ~attached => listeners = {}
  /\ attached => \A t \in EventTypes : Cardinality({l \in listeners : l.type = t}) = 1

\* C4: a submit event with a valid email and a resolved variant issues exactly
\* one POST, and no other step issues any (no retry after a response).
C4_OneRequestPerSubmission ==
  [][/\ \A e \in 1..Len(elems), v \in Emails, page \in SubmitPages :
          (nSubmits' # nSubmits /\ ~InvalidEmail(v) /\ Truthy(GetVariantId(page))
             /\ Submit(e, v, page))
            => fetchCount' = fetchCount + 1
     /\ nSubmits' = nSubmits => fetchCount' = fetchCount]_vars

\* C5: whenever no request of a modal is in flight, its submit control is
\* enabled and shows the label "Notify Me".
C5_SubmitControlRestored ==
  \A e \in 1..Len(elems) :
    ~InFlight(e) => ~elems[e].disabled /\ elems[e].label = ButtonLabel

\* C6: when the server answers a submission with an HTTP success status, with
\* or without a JSON body, the modal shows the success message, the email input
\* is cleared and the close after 2.5 seconds is scheduled.
C6_SuccessOnAnyOkResponse ==
  [][\A i \in 1..Len(requests), r \in OkResponses :
       Respond(i, r) =>
         LET e == ModalOf(requests[i].k) IN
         /\ elems'[e].msg = ThankYouText
         /\ elems'[e].msgClass = "success"
         /\ elems'[e].value = ""
         /\ timers' = Append(timers, [kind |-> "autoclose", k |-> requests[i].k])]_vars

\* C7: a transport-level failure shows the generic connectivity message whatever
\* the text of the underlying error, and a non-success HTTP response never does.
C7_ConnectivityMessage ==
  [][\A i \in 1..Len(requests), r \in Responses :
       Respond(i, r) =>
         LET e == ModalOf(requests[i].k) IN
         /\ r.kind = "reject" => elems'[e].msg = NetworkErrorText
         /\ r.kind = "http" => elems'[e].msg # NetworkErrorText]_vars

\* C8: after a variant event handled by an attached component that contains its
\* trigger button, the control is shown exactly when the event's resource is
\* present with available false, and hidden otherwise (available true or
\* missing, resource absent or null, no detail), whatever came before.
C8_VisibleIffUnavailable ==
  (last.op = "variant" /\ last.attached /\ hasButton) =>
    IF last.payload.detail /\ last.payload.resource = "variant"
         /\ last.payload.available = "false"
    THEN display = Shown
    ELSE display = Hidden

\* C8 witness: a malformed payload (resource without available) left the control hidden
C8_Witness ==
  /\ last.op = "variant" /\ last.attached /\ hasButton
  /\ last.payload.resource = "variant" /\ last.payload.available = "missing"
  /\ display = Hidden
  /\ nHandlers > 1

\* C9: when no modal is opening or open, no handleKeydown listener is registered
\* on the document.
C9_KeydownOnlyWhileOpen ==
  (\A e \in 1..Len(elems) : ~IsOpen(e)) => keydown = <<>>

\* C10: a submit event whose trimmed email is empty or has no "@" issues no
\* request and shows the validation message; the submit control keeps its state
\* and label, and the modal stays as it is (no close scheduled, still in the
\* document).
C10_InvalidEmailFailsFast ==
  [][\A e \in 1..Len(elems), v \in Emails, page \in SubmitPages :
       (nSubmits' # nSubmits /\ InvalidEmail(v) /\ Submit(e, v, page)) =>
         /\ fetchCount' = fetchCount
         /\ requests' = requests
         /\ elems'[e].msg = ValidationText
         /\ elems'[e].msgClass = "error"
         /\ elems'[e].msgDisplay = "block"
         /\ elems'[e].disabled = elems[e].disabled
         /\ elems'[e].label = elems[e].label
         /\ elems'[e].visible = elems[e].visible
         /\ body' = body
         /\ timers' = timers]_vars

\* C10 witness: an open modal after the submission of "not-an-email"
C10_Witness ==
  \E e \in 1..Len(elems) :
    /\ IsOpen(e) /\ elems[e].visible
    /\ nSubmits = 1 /\ fetchCount = 0
    /\ elems[e].value = "not-an-email"
    /\ elems[e].msg = ValidationText
    /\ ~elems[e].disabled /\ elems[e].label = ButtonLabel

\* C11: a submit event with a valid email on a page where getVariantId returns
\* null issues no request, shows the unresolved-variant error in the modal and
\* leaves the submit control enabled with its label.
C11_UnresolvedVariantFailsFast ==
  [][\A e \in 1..Len(elems), v \in Emails, page \in SubmitPages :
       (nSubmits' # nSubmits /\ ~InvalidEmail(v) /\ ~Truthy(GetVariantId(page))
          /\ Submit(e, v, page)) =>
         /\ fetchCount' = fetchCount
         /\ requests' = requests
         /\ elems'[e].msg = NoVariantText
         /\ elems'[e].msgClass = "error"
         /\ elems'[e].msgDisplay = "block"
         /\ ~elems'[e].disabled
         /\ elems'[e].label = elems[e].label]_vars

\* C11 witness: an open modal after a valid email was submitted with no variant resolved
C11_Witness ==
  \E e \in 1..Len(elems) :
    /\ IsOpen(e) /\ elems[e].visible
    /\ nSubmits = 1 /\ fetchCount = 0
    /\ elems[e].value = " a@b.c "
    /\ elems[e].msg = NoVariantText
    /\ ~elems[e].disabled /\ elems[e].label = ButtonLabel

\* The value each tier of the fallback chain offers on a page, in order: the
\* product form's input, the first non-empty input of the section, the checked
\* picker input's id, the URL parameter (<<>>: the tier offers nothing)
TierValues(page) ==
  LET secVals == SelectSeq(page.section.inputs, LAMBDA x : x # "") IN
  << IF page.productForm.present /\ page.productForm.inputs # <<>>
     THEN <<Head(page.productForm.inputs)>> ELSE <<>>,
     IF page.section.present /\ secVals # <<>> THEN <<Head(secVals)>> ELSE <<>>,
     IF page.picker.present /\ page.picker.checked # <<>> THEN page.picker.checked[1] ELSE <<>>,
     page.url >>

\* C12: getVariantId returns the value of the lowest-numbered tier that offers
\* a non-empty value, and null when no tier does; so a product-form value beats
\* a URL parameter, and a URL parameter alone is used.
C12_FirstNonEmptyTierWins ==
  resolution.called =>
    LET tiers == TierValues(resolution.page)
        offering == {t \in 1..4 : Truthy(tiers[t])}
    IN
    /\ offering = {} => resolution.variantId = <<>>
    /\ \A t \in offering :
         (\A u \in 1..(t - 1) : u \notin offering) => resolution.variantId = tiers[t]
    /\ (1 \in offering /\ 4 \in offering) => resolution.variantId = tiers[1]
    /\ offering = {4} => resolution.variantId = resolution.page.url

\* C12 witness: the picker's id returned although the URL carries one too, the
\* product form's and the section's inputs being empty
C12_Witness ==
  /\ resolution.called
  /\ resolution.page.productForm = Container(<<"">>)
  /\ resolution.page.section = Container(<<"">>)
  /\ resolution.page.url = <<"44">>
  /\ resolution.variantId = <<"43">>

\* An auto-close of element e is scheduled
AutoClosePending(e) ==
  \E i \in 1..Len(timers) : timers[i].kind = "autoclose" /\ ModalOf(timers[i].k) = e

\* What an error outcome on the open modal e must leave behind, apart from the
\* auto-close: the modal open and in the document, the error in its message
\* area, the submit control enabled
ErrorShownFormUsable(e) ==
  /\ IsOpen(e)'
  /\ body' = body
  /\ keydown' = keydown
  /\ elems'[e].msgClass = "error"
  /\ elems'[e].msgDisplay = "block"
  /\ elems'[e].msg # ""
  /\ ~elems'[e].disabled

\* The steps that end a submission of the open modal e in an error: an early
\* return of the submit handler, or a rejected or non-success response
ErrorOutcome(e) ==
  /\ IsOpen(e)
  /\ \/ /\ nSubmits' # nSubmits
        /\ \E v \in Emails, page \in SubmitPages :
             /\ InvalidEmail(v) \/ ~Truthy(GetVariantId(page))
             /\ Submit(e, v, page)
     \/ /\ Len(requests') < Len(requests)
        /\ \E i \in 1..Len(requests), r \in Responses :
             /\ ModalOf(requests[i].k) = e
             /\ r.kind # "ok"
             /\ Respond(i, r)

\* The form is usable for retry: a submit event with a valid email and a
\* resolved variant on a modal showing an error issues a request
RetryIssuesRequest ==
  \A e \in 1..Len(elems), v \in Emails, page \in SubmitPages :
    (nSubmits' # nSubmits /\ elems[e].msgClass = "error"
       /\ ~InvalidEmail(v) /\ Truthy(GetVariantId(page)) /\ Submit(e, v, page))
      => fetchCount' > fetchCount

\* C13: after any error outcome of a submission on an open modal, the modal is
\* still open with no auto-close scheduled, the error is shown in its message
\* area only, and a following valid submission issues a request again.
C13_ErrorLeavesFormOpen ==
  [][/\ \A e \in 1..Len(elems) :
          ErrorOutcome(e) => ErrorShownFormUsable(e) /\ ~AutoClosePending(e)'
     /\ RetryIssuesRequest]_vars

\* The part of C13 that one error outcome decides by itself: it closes nothing
\* and schedules nothing
C13_ErrorOutcomeSchedulesNothing ==
  [][/\ \A e \in 1..Len(elems) :
          ErrorOutcome(e) => ErrorShownFormUsable(e) /\ timers' = timers
     /\ RetryIssuesRequest]_vars

\* The element the k-th showEmailModal call inserted: each call appends one
\* element and one closure
InsertedBy(k) == k

\* C14: every handler, late response and timer of one open click works on the
\* modal element that this same click inserted, never on another click's.
C14_ClosureOwnsItsElement ==
  /\ Len(closures) = Len(elems)
  /\ \A k \in 1..Len(closures) : ModalOf(k) = InsertedBy(k)

\* A field of a JSON error body is present and non-empty
Filled(r, field) == r.body = "json" /\ r[field] # <<>> /\ r[field][1] # ""

\* C15: a non-success HTTP response shows the body's message field when it is
\* present and non-empty, otherwise its error field when present and non-empty,
\* otherwise "HTTP <status>", which is also shown when the body is absent or is
\* not JSON; the submission ends in the error outcome, never in success.
C15_HttpErrorMessage ==
  [][\A i \in 1..Len(requests), r \in HttpErrors :
       Respond(i, r) =>
         LET e == ModalOf(requests[i].k) IN
         /\ Filled(r, "message") => elems'[e].msg = r.message[1]
         /\ (~Filled(r, "message") /\ Filled(r, "error")) => elems'[e].msg = r.error[1]
         /\ (~Filled(r, "message") /\ ~Filled(r, "error")) =>
              elems'[e].msg = (IF r.status = 404 THEN "HTTP 404" ELSE "HTTP 500")
         /\ r.body \in {"none", "text"} => elems'[e].msg \in {"HTTP 404", "HTTP 500"}
         /\ elems'[e].msgClass = "error"
         /\ elems'[e].msgDisplay = "block"
         /\ elems'[e].value = elems[e].value
         /\ timers' = timers]_vars

\* C15 witness: the body's error field shown in an open modal after a response
C15_Witness ==
  \E e \in 1..Len(elems) :
    /\ IsOpen(e)
    /\ fetchCount = 1 /\ requests = <<>>
    /\ elems[e].msg = "invalid variant"
    /\ elems[e].msgClass = "error"
    /\ ~AutoClosePending(e)

\* A close trigger of element e has fired: its removal is pending or done
CloseFired(e) == Closing(e) \/ ~InBody(e)

\* C16: each close trigger fired on an opening or open modal moves it to
\* closing, the removal timer takes the element out of the document, and once a
\* close trigger has fired the modal never carries the visibility class again,
\* also when the close fires before the first-paint callback.
C16_Lifecycle ==
  [][/\ \A e \in 1..Len(elems), t \in {"close", "cancel", "backdrop"} :
          (nEvents' # nEvents /\ IsOpen(e) /\ CloseClick(e, t)) =>
            Closing(e)' /\ InBody(e)' /\ ~elems'[e].visible
     /\ \A e \in 1..Len(elems) :
          (nEvents' # nEvents /\ IsOpen(e) /\ BoundTo(Dom, e) # <<>> /\ Keydown("Escape")) =>
            Closing(e)' /\ InBody(e)' /\ ~elems'[e].visible
     /\ \A i \in 1..Len(timers), e \in 1..Len(elems) :
          (Len(timers') < Len(timers) /\ ModalOf(timers[i].k) = e /\ RemoveTimer(i)) =>
            ~InBody(e)'
     /\ \A e \in 1..Len(elems') : CloseFired(e)' => ~elems'[e].visible]_vars

\* C17: while a request issued by a modal's submission is in flight, the
\* modal's submit control is disabled and shows "Submitting...".
C17_BusyWhileInFlight ==
  \A e \in 1..Len(elems) :
    InFlight(e) => elems[e].disabled /\ elems[e].label = BusyLabel

\* C18: closing a modal does not cancel its request in flight: a request leaves
\* flight only by its response being processed, and a response that arrives
\* after the close sets the message, restores the submit control and, on
\* success, schedules a further close, while nothing is put back into the
\* document and no listener is registered again.
C18_LateResponseProcessed ==
  [][/\ requests' # requests =>
          \/ nSubmits' # nSubmits
          \/ \E i \in 1..Len(requests), r \in Responses : Respond(i, r)
     /\ \A i \in 1..Len(requests), r \in Responses :
          (Len(requests') < Len(requests) /\ CloseFired(ModalOf(requests[i].k))
             /\ Respond(i, r)) =>
            LET e == ModalOf(requests[i].k) IN
            /\ elems'[e].msg # "" /\ elems'[e].msgDisplay = "block"
            /\ ~elems'[e].disabled
            /\ elems'[e].label = requests[i].originalText
            /\ (r.kind = "ok" /\ r.body = "json") =>
                 /\ elems'[e].msg = ThankYouText /\ elems'[e].msgClass = "success"
                 /\ timers' = Append(timers, [kind |-> "autoclose", k |-> requests[i].k])
            /\ r.kind # "ok" => elems'[e].msgClass = "error" /\ timers' = timers
            /\ body' = body
            /\ keydown' = keydown
            /\ rafs' = rafs
            /\ elems'[e].visible = elems[e].visible]_vars

\* C18 witness: the success of a request processed after its modal was closed
\* and removed from the document
C18_Witness ==
  \E e \in 1..Len(elems) :
    /\ ~InBody(e) /\ ~elems[e].visible
    /\ fetchCount = 1 /\ requests = <<>>
    /\ elems[e].msg = ThankYouText
    /\ ~elems[e].disabled /\ elems[e].label = ButtonLabel
    /\ AutoClosePending(e)

\* What a further run of closure k's closeModal on its modal e leaves: the
\* listener still removed, the modal without the visibility class and still on
\* its way out of the document, nothing else changed
SecondCloseLeaves(k, e) ==
  /\ keydown' = keydown
  /\ \A i \in 1..Len(keydown') : keydown'[i] # k
  /\ elems' = [elems EXCEPT ![e].visible = FALSE]
  /\ body' = body
  /\ closures' = closures
  /\ rafs' = rafs
  /\ requests' = requests
  /\ CloseFired(e)'

\* C19: running the close of one modal a second time (a second close trigger
\* within the 300ms window, or the auto-close timer after a manual close) leaves
\* the same state as running it once: the keydown listener stays removed, the
\* modal is without the visibility class and ends removed, and no other element
\* or listener is touched.
C19_CloseModalIdempotent ==
  [][/\ \A k \in 1..Len(closures) :
          LET once == CloseModal(Dom, k)
              twice == CloseModal(once, k)
          IN /\ twice.keydown = once.keydown
             /\ twice.elems = once.elems
             /\ twice.body = once.body
             /\ twice.closures = once.closures
             /\ twice.rafs = once.rafs
     /\ \A e \in 1..Len(elems), t \in {"close", "cancel", "backdrop"} :
          (nEvents' # nEvents /\ Closing(e) /\ BoundTo(Dom, e) = <<1>> /\ CloseClick(e, t)) =>
            SecondCloseLeaves(1, e)
     /\ \A i \in 1..Len(timers), e \in 1..Len(elems) :
          (nEvents' = nEvents /\ Len(timers') = Len(timers) /\ timers[i].kind = "autoclose"
             /\ ModalOf(timers[i].k) = e /\ CloseFired(e) /\ AutoCloseTimer(i)) =>
            SecondCloseLeaves(timers[i].k, e)
     /\ \A i \in 1..Len(timers), e \in 1..Len(elems) :
          (Len(timers') < Len(timers) /\ ModalOf(timers[i].k) = e /\ ~InBody(e)
             /\ RemoveTimer(i)) =>
            /\ body' = body /\ elems' = elems /\ keydown' = keydown]_vars

\* C19 witness: two removals of the same modal pending at once, after its close
\* ran twice within 300ms
C19_Witness ==
  \E i, j \in 1..Len(timers) :
    /\ i < j
    /\ timers[i].kind = "remove" /\ timers[j].kind = "remove"
    /\ timers[i].k = timers[j].k
    /\ keydown = <<>>
    /\ InBody(ModalOf(timers[i].k))
    /\ ~elems[ModalOf(timers[i].k)].visible

====
